---- MODULE Spec2Model ----
(***************************************************************************)
(* Seeder service of plenum (plenum/server/catchup/seeder_service.py):     *)
(* answers LedgerStatus and CatchupReq messages of lagging peers with      *)
(* ConsistencyProof, LedgerStatus and CatchupRep messages, and splits      *)
(* CatchupReps the transport cannot fit on the wire.                       *)
(***************************************************************************)
EXTENDS Integers, Sequences, FiniteSets, TLC

(* ------------------------------ bounds --------------------------------- *)
\* largest ledger size the writer grows a ledger to
MaxSize == 3
\* the inbound messages followed through the dispatcher
MaxRequests == 3

\* the ledger objects of the node (Ledger instances)
LedgerObjs == {"pool", "domain"}
\* the ledger ids of messages and of add_ledger (POOL_LEDGER_ID, DOMAIN_LEDGER_ID)
LedgerIds == {0, 1}
Senders == {"n1", "n2"}
\* sequence numbers a peer may put into a LedgerStatus (i64) and into a
\* CatchupReq (u64); every ledger shorter than MaxSize sees larger ones
StatusSeqNos == (-1)..(MaxSize + 1)
ReqSeqNos == 0..MaxSize

None == "None"
ValueError == "ValueError"
\* the provider has no three-phase key (a falsy result)
NoKey == <<>>
\* _split returns None
NoSplit == <<>>

VARIABLES
    ledgerTxns,  \* ledger object -> its committed transactions (Ledger)
    _ledgers,    \* SeederService._ledgers : ledgerId -> ledger object or None
    _echo_ledger_status_if_up_to_date,  \* the variant flag
    last,        \* the last operation: its input, its send_to calls, its log
    wire,        \* the transport's hold of the last CatchupRep handed to send_to
    engine_refuses, \* the Merkle engine refuses the computations asked of it
    inflight,    \* process_ledger_status taken read by read: its position and locals
    processed,   \* how many inbound messages the dispatcher has handed to a handler
    sent,        \* for each message handed to send_to, the number of its request
    domain_state,  \* the state trie: its committed and its uncommitted head
    answer       \* the last call of request_handlers/utils.py and what it returned

orderVars == <<processed, sent>>
nymVars == <<domain_state, answer>>

\* what lies outside the seeder and its ledgers
envVars == <<engine_refuses, inflight, orderVars, nymVars>>

vars == <<ledgerTxns, _ledgers, _echo_ledger_status_if_up_to_date, last, wire,
          envVars>>

(* --------------------------- Ledger view ------------------------------- *)
\* the transaction the writer commits as number s of ledger object l
Txn(l, s) == [ledger |-> l, seqNo |-> s]

\* Ledger.size
size(txns) == Len(txns)

\* Ledger.getAllTxn(frm, to): the (seqNo, txn) pairs of the range, both ends
\* included, in log order; the log is 1-based, so no pair has seqNo 0
getAllTxn(txns, frm, to) ==
    LET lo == IF frm < 1 THEN 1 ELSE frm
        hi == IF to > Len(txns) THEN Len(txns) ELSE to
    IN  [i \in 1..(IF hi >= lo THEN hi - lo + 1 ELSE 0) |->
            <<lo + i - 1, txns[lo + i - 1]>>]

\* CatchupDataProvider.update_txn_with_extra_data: a pure decorator
update_txn_with_extra_data(txn) == [txn |-> txn, extra |-> "extra"]

\* CatchupDataProvider.three_phase_key_for_txn_seq_no: the provider knows the
\* key of the batches ordered in the current view only
three_phase_key_for_txn_seq_no(ledger_id, seq_no) ==
    IF seq_no >= 2 THEN <<ledger_id + 1, seq_no>> ELSE NoKey

(* ------------------------ Merkle proof engine -------------------------- *)
EmptyHash == <<2>>
LeafHash(txn) == <<0, txn>>
NodeHash(l, r) == <<1, l, r>>

RECURSIVE LargestPow2Below(_)
\* the largest power of two strictly smaller than n (n >= 2)
LargestPow2Below(n) == IF n <= 2 THEN 1 ELSE 2 * LargestPow2Below((n + 1) \div 2)

RECURSIVE merkle_tree_hash(_, _, _)
\* tree.merkle_tree_hash(lo, hi): hash of the subtree over the leaves [lo, hi)
merkle_tree_hash(txns, lo, hi) ==
    IF hi <= lo THEN EmptyHash
    ELSE IF hi - lo = 1 THEN LeafHash(txns[lo + 1])
    ELSE LET k == LargestPow2Below(hi - lo)
         IN  NodeHash(merkle_tree_hash(txns, lo, lo + k),
                      merkle_tree_hash(txns, lo + k, hi))

\* tree.root_hash: the root of the whole tree as it is now
root_hash(txns) == merkle_tree_hash(txns, 0, Len(txns))

RECURSIVE SubProof(_, _, _, _, _)
\* RFC 6962 2.1.2 SUBPROOF(m, D[lo:hi], b)
SubProof(txns, m, lo, hi, b) ==
    IF m = hi - lo
    THEN IF b THEN <<>> ELSE <<merkle_tree_hash(txns, lo, hi)>>
    ELSE LET k == LargestPow2Below(hi - lo)
         IN  IF m <= k
             THEN Append(SubProof(txns, m, lo, lo + k, b),
                         merkle_tree_hash(txns, lo + k, hi))
             ELSE Append(SubProof(txns, m - k, lo + k, hi, FALSE),
                         merkle_tree_hash(txns, lo, lo + k))

\* tree.consistency_proof(m, n): refuses m > n and n > size, and whatever it
\* is asked while it is at fault; empty for m = 0
consistency_proof(txns, m, n) ==
    IF engine_refuses \/ m > n \/ n > Len(txns)
    THEN [exc |-> ValueError, val |-> <<>>]
    ELSE IF m = 0 THEN [exc |-> None, val |-> <<>>]
    ELSE [exc |-> None, val |-> SubProof(txns, m, 0, n, TRUE)]

\* Ledger.hashToStr: the printable form of a hash
hashToStr(h) == [str |-> h]

(* ----------------------------- messages -------------------------------- *)
LedgerStatus(p_ledgerId, p_txnSeqNo, p_merkleRoot) ==
    [type |-> "LedgerStatus", ledgerId |-> p_ledgerId, txnSeqNo |-> p_txnSeqNo,
     merkleRoot |-> p_merkleRoot]

CatchupReq(p_ledgerId, p_seqNoStart, p_seqNoEnd, p_catchupTill) ==
    [type |-> "CatchupReq", ledgerId |-> p_ledgerId, seqNoStart |-> p_seqNoStart,
     seqNoEnd |-> p_seqNoEnd, catchupTill |-> p_catchupTill]

CatchupRep(p_ledgerId, p_txns, p_consProof) ==
    [type |-> "CatchupRep", ledgerId |-> p_ledgerId, txns |-> p_txns,
     consProof |-> p_consProof]

ConsistencyProof(p_ledgerId, p_seqNoStart, p_seqNoEnd, p_viewNo, p_ppSeqNo, p_oldMerkleRoot, p_newMerkleRoot, p_hashes) ==
    [type |-> "ConsistencyProof", ledgerId |-> p_ledgerId,
     seqNoStart |-> p_seqNoStart, seqNoEnd |-> p_seqNoEnd,
     viewNo |-> p_viewNo, ppSeqNo |-> p_ppSeqNo,
     oldMerkleRoot |-> p_oldMerkleRoot, newMerkleRoot |-> p_newMerkleRoot,
     hashes |-> p_hashes]

\* the root a peer reports in its own LedgerStatus; the seeder never reads it
PeerRoot == [str |-> <<3>>]

\* one call of CatchupDataProvider.send_to(message, destination, splitter)
send_to(msg, frm, message_splitter) ==
    [msg |-> msg, to |-> frm, splitter |-> message_splitter]

\* build_ledger_status(ledger_id, ledger, provider): our own current status
build_ledger_status(ledger_id, txns) ==
    LedgerStatus(ledger_id, size(txns), hashToStr(root_hash(txns)))

(* --------------------------- SortedDict -------------------------------- *)
Min(S) == CHOOSE x \in S : \A y \in S : x <= y

RECURSIVE SortedKeys(_)
SortedKeys(S) == IF S = {} THEN <<>> ELSE <<Min(S)>> \o SortedKeys(S \ {Min(S)})

\* dict(items): a later item of a key replaces an earlier one
DictOf(items) ==
    [k \in {items[i][1] : i \in DOMAIN items} |->
        items[CHOOSE i \in DOMAIN items :
                 /\ items[i][1] = k
                 /\ \A j \in DOMAIN items : items[j][1] = k => j <= i][2]]

\* SortedDict(d).items(): the items of d in ascending key order
SortedDict(d) ==
    LET keys == SortedKeys(DOMAIN d)
    IN  [i \in DOMAIN keys |-> <<keys[i], d[keys[i]]>>]

\* [Ledger.hashToStr(p) for p in proof]
hashesToStr(proof) == [i \in DOMAIN proof |-> hashToStr(proof[i])]

(* --------------------------- SeederService ----------------------------- *)
\* what one call of a handler did: its send_to calls, the levels it logged
\* at, the consistency_proof calls it made, the exception that left it
Result(out, logs, cp_calls, exc) ==
    [out |-> out, logs |-> logs, cp_calls |-> cp_calls, exc |-> exc]

_get_ledger_and_id(req) == <<req.ledgerId, _ledgers[req.ledgerId]>>

_make_consistency_proof(txns, seq_no_start, seq_no_end) ==
    LET proof == consistency_proof(txns, seq_no_start, seq_no_end)
    IN  [exc |-> proof.exc, val |-> hashesToStr(proof.val)]

\* the seq_no_start = 0 branch without its special case
old_root_and_proof_NoZeroCase(txns, seq_no_start, seq_no_end) ==
    [proof |-> _make_consistency_proof(txns, seq_no_start, seq_no_end),
     old_root |-> hashToStr(merkle_tree_hash(txns, 0, seq_no_start)),
     cp_calls |-> <<<<seq_no_start, seq_no_end>>>>]

\* the old root taken from the current tree in both branches
old_root_and_proof_CurrentRoot(txns, seq_no_start, seq_no_end) ==
    IF seq_no_start = 0
    THEN [proof |-> [exc |-> None, val |-> <<hashToStr(root_hash(txns))>>],
          old_root |-> hashToStr(root_hash(txns)),
          cp_calls |-> <<>>]
    ELSE [proof |-> _make_consistency_proof(txns, seq_no_start, seq_no_end),
          old_root |-> hashToStr(root_hash(txns)),
          cp_calls |-> <<<<seq_no_start, seq_no_end>>>>]

\* _build_consistency_proof, the choice of old_root and proof
old_root_and_proof(txns, seq_no_start, seq_no_end) ==
    IF seq_no_start = 0
    THEN [proof |-> [exc |-> None, val |-> <<hashToStr(root_hash(txns))>>],
          old_root |-> hashToStr(root_hash(txns)),
          cp_calls |-> <<>>]
    ELSE [proof |-> _make_consistency_proof(txns, seq_no_start, seq_no_end),
          old_root |-> hashToStr(merkle_tree_hash(txns, 0, seq_no_start)),
          cp_calls |-> <<<<seq_no_start, seq_no_end>>>>]

\* the message built with seq_no_start and seq_no_end in each other's place
_build_consistency_proof_Swapped(ledger_id, seq_no_start, seq_no_end) ==
    LET txns == ledgerTxns[_ledgers[ledger_id]]
        op == old_root_and_proof(txns, seq_no_start, seq_no_end)
        new_root == hashToStr(merkle_tree_hash(txns, 0, seq_no_end))
        three_pc_key == three_phase_key_for_txn_seq_no(ledger_id, seq_no_end)
        view_no == IF three_pc_key # NoKey THEN three_pc_key[1] ELSE 0
        pp_seq_no == IF three_pc_key # NoKey THEN three_pc_key[2] ELSE 0
    IN  IF \/ seq_no_end < seq_no_start
           \/ seq_no_start > size(txns)
           \/ seq_no_end > size(txns)
        THEN [exc |-> ValueError, msg |-> None, cp_calls |-> <<>>]
        ELSE IF op.proof.exc = ValueError
        THEN [exc |-> ValueError, msg |-> None, cp_calls |-> op.cp_calls]
        ELSE [exc |-> None,
              msg |-> ConsistencyProof(ledger_id, seq_no_end, seq_no_start,
                                       view_no, pp_seq_no,
                                       op.old_root, new_root, op.proof.val),
              cp_calls |-> op.cp_calls]

\* the three-phase key asked for seq_no_start
_build_consistency_proof_KeyOfStart(ledger_id, seq_no_start, seq_no_end) ==
    LET txns == ledgerTxns[_ledgers[ledger_id]]
        op == old_root_and_proof(txns, seq_no_start, seq_no_end)
        new_root == hashToStr(merkle_tree_hash(txns, 0, seq_no_end))
        three_pc_key == three_phase_key_for_txn_seq_no(ledger_id, seq_no_start)
        view_no == IF three_pc_key # NoKey THEN three_pc_key[1] ELSE 0
        pp_seq_no == IF three_pc_key # NoKey THEN three_pc_key[2] ELSE 0
    IN  IF \/ seq_no_end < seq_no_start
           \/ seq_no_start > size(txns)
           \/ seq_no_end > size(txns)
        THEN [exc |-> ValueError, msg |-> None, cp_calls |-> <<>>]
        ELSE IF op.proof.exc = ValueError
        THEN [exc |-> ValueError, msg |-> None, cp_calls |-> op.cp_calls]
        ELSE [exc |-> None,
              msg |-> ConsistencyProof(ledger_id, seq_no_start, seq_no_end,
                                       view_no, pp_seq_no,
                                       op.old_root, new_root, op.proof.val),
              cp_calls |-> op.cp_calls]

_build_consistency_proof(ledger_id, seq_no_start, seq_no_end) ==
    LET txns == ledgerTxns[_ledgers[ledger_id]]
        op == old_root_and_proof(txns, seq_no_start, seq_no_end)
        new_root == hashToStr(merkle_tree_hash(txns, 0, seq_no_end))
        three_pc_key == three_phase_key_for_txn_seq_no(ledger_id, seq_no_end)
        view_no == IF three_pc_key # NoKey THEN three_pc_key[1] ELSE 0
        pp_seq_no == IF three_pc_key # NoKey THEN three_pc_key[2] ELSE 0
    IN  IF \/ seq_no_end < seq_no_start
           \/ seq_no_start > size(txns)
           \/ seq_no_end > size(txns)
        THEN [exc |-> ValueError, msg |-> None, cp_calls |-> <<>>]
        ELSE IF op.proof.exc = ValueError
        THEN [exc |-> ValueError, msg |-> None, cp_calls |-> op.cp_calls]
        ELSE [exc |-> None,
              msg |-> ConsistencyProof(ledger_id, seq_no_start, seq_no_end,
                                       view_no, pp_seq_no,
                                       op.old_root, new_root, op.proof.val),
              cp_calls |-> op.cp_calls]

_make_splitter_for_catchup_rep(ledger, initial_seq_no) ==
    [ledger |-> ledger, initial_seq_no |-> initial_seq_no]

\* the up-to-date test written with > for >=
handle_ledger_status_Gt(status, frm) ==
    LET ledger_id == _get_ledger_and_id(status)[1]
        ledger == _get_ledger_and_id(status)[2]
        txns == ledgerTxns[ledger]
        built == _build_consistency_proof(ledger_id, status.txnSeqNo, size(txns))
    IN  IF ledger = None
        THEN Result(<<>>, <<"info", "warning">>, <<>>, None)
        ELSE IF status.txnSeqNo < 0
        THEN Result(<<>>, <<"info", "warning">>, <<>>, None)
        ELSE IF status.txnSeqNo > size(txns)
        THEN IF _echo_ledger_status_if_up_to_date
             THEN Result(<<send_to(build_ledger_status(ledger_id, txns), frm, None)>>,
                         <<"info">>, <<>>, None)
             ELSE Result(<<>>, <<"info">>, <<>>, None)
        ELSE IF built.exc = ValueError
        THEN Result(<<>>, <<"info", "warning">>, built.cp_calls, None)
        ELSE Result(<<send_to(built.msg, frm, None)>>,
                    <<"info", "info">>, built.cp_calls, None)

\* process_ledger_status(status, frm): what the call does
handle_ledger_status(status, frm) ==
    LET ledger_id == _get_ledger_and_id(status)[1]
        ledger == _get_ledger_and_id(status)[2]
        txns == ledgerTxns[ledger]
        built == _build_consistency_proof(ledger_id, status.txnSeqNo, size(txns))
    IN  IF ledger = None
        THEN Result(<<>>, <<"info", "warning">>, <<>>, None)
        ELSE IF status.txnSeqNo < 0
        THEN Result(<<>>, <<"info", "warning">>, <<>>, None)
        ELSE IF status.txnSeqNo >= size(txns)
        THEN IF _echo_ledger_status_if_up_to_date
             THEN Result(<<send_to(build_ledger_status(ledger_id, txns), frm, None)>>,
                         <<"info">>, <<>>, None)
             ELSE Result(<<>>, <<"info">>, <<>>, None)
        ELSE IF built.exc = ValueError
        THEN Result(<<>>, <<"info", "warning">>, built.cp_calls, None)
        ELSE Result(<<send_to(built.msg, frm, None)>>,
                    <<"info", "info">>, built.cp_calls, None)

\* the range checks without the start > end rule
catchup_req_discarded_NoStartEnd(req, txns) ==
    IF req.seqNoEnd > req.catchupTill THEN <<"debug">>
    ELSE IF req.catchupTill > size(txns) THEN <<"debug">>
    ELSE <<>>

\* process_catchup_req, the range checks of a request for a registered
\* ledger: the level logged at when the request is discarded, <<>> when kept
catchup_req_discarded(req, txns) ==
    IF req.seqNoStart > req.seqNoEnd THEN <<"debug">>
    ELSE IF req.seqNoEnd > req.catchupTill THEN <<"debug">>
    ELSE IF req.catchupTill > size(txns) THEN <<"debug">>
    ELSE <<>>

\* the proof taken from the start of the range, the splitter bound to its end
catchup_reply_FromStart(ledger_id, ledger, req, frm) ==
    LET txns == ledgerTxns[ledger]
        start == req.seqNoStart
        end == req.seqNoEnd
        proof == consistency_proof(txns, start, req.catchupTill)
        cons_proof == hashesToStr(proof.val)
        got == getAllTxn(txns, start, end)
        dict == DictOf([i \in DOMAIN got |->
                          <<got[i][1], update_txn_with_extra_data(got[i][2])>>])
        rep == CatchupRep(ledger_id, SortedDict(dict), cons_proof)
        message_splitter == _make_splitter_for_catchup_rep(ledger, end)
    IN  IF proof.exc = ValueError
        THEN Result(<<>>, <<"info">>, <<<<start, req.catchupTill>>>>, ValueError)
        ELSE Result(<<send_to(rep, frm, message_splitter)>>, <<"info">>,
                    <<<<start, req.catchupTill>>>>, None)

\* process_catchup_req, the reply to a request that passed the checks
catchup_reply(ledger_id, ledger, req, frm) ==
    LET txns == ledgerTxns[ledger]
        start == req.seqNoStart
        end == req.seqNoEnd
        proof == consistency_proof(txns, end, req.catchupTill)
        cons_proof == hashesToStr(proof.val)
        got == getAllTxn(txns, start, end)
        dict == DictOf([i \in DOMAIN got |->
                          <<got[i][1], update_txn_with_extra_data(got[i][2])>>])
        rep == CatchupRep(ledger_id, SortedDict(dict), cons_proof)
        message_splitter == _make_splitter_for_catchup_rep(ledger, req.catchupTill)
    IN  IF proof.exc = ValueError
        THEN Result(<<>>, <<"info">>, <<<<end, req.catchupTill>>>>, ValueError)
        ELSE Result(<<send_to(rep, frm, message_splitter)>>, <<"info">>,
                    <<<<end, req.catchupTill>>>>, None)

\* process_catchup_req(req, frm): what the call does
handle_catchup_req(req, frm) ==
    LET ledger_id == _get_ledger_and_id(req)[1]
        ledger == _get_ledger_and_id(req)[2]
        discarded == catchup_req_discarded(req, ledgerTxns[ledger])
    IN  IF ledger = None
        THEN Result(<<>>, <<"info", "warning">>, <<>>, None)
        ELSE IF discarded # <<>>
        THEN Result(<<>>, <<"info">> \o discarded, <<>>, None)
        ELSE catchup_reply(ledger_id, ledger, req, frm)

\* the midpoint rounded up
split_halves_Ceil(txns) ==
    LET divider == (Len(txns) + 1) \div 2
    IN  <<SubSeq(txns, 1, divider), SubSeq(txns, divider + 1, Len(txns))>>

\* _split, the partition of the items at the midpoint
split_halves(txns) ==
    LET divider == Len(txns) \div 2
    IN  <<SubSeq(txns, 1, divider), SubSeq(txns, divider + 1, Len(txns))>>

\* a message of two transactions taken as too small to split
_split_Le2(splitter, message) ==
    LET ledgerNow == ledgerTxns[splitter.ledger]
        left == split_halves(message.txns)[1]
        left_last_seq_no == left[Len(left)][1]
        right == split_halves(message.txns)[2]
        right_last_seq_no == right[Len(right)][1]
        left_cons_proof == _make_consistency_proof(ledgerNow, left_last_seq_no,
                                                   splitter.initial_seq_no)
        right_cons_proof == _make_consistency_proof(ledgerNow, right_last_seq_no,
                                                    splitter.initial_seq_no)
        ledger_id == message.ledgerId
        left_rep == CatchupRep(ledger_id, SortedDict(DictOf(left)),
                               left_cons_proof.val)
        right_rep == CatchupRep(ledger_id, SortedDict(DictOf(right)),
                                right_cons_proof.val)
    IN  IF Len(message.txns) <= 2
        THEN [ret |-> NoSplit, logs |-> <<"warning">>, cp_calls |-> <<>>,
              exc |-> None]
        ELSE IF left_cons_proof.exc = ValueError \/ right_cons_proof.exc = ValueError
        THEN [ret |-> NoSplit, logs |-> <<>>, cp_calls |-> <<>>,
              exc |-> ValueError]
        ELSE [ret |-> <<left_rep, right_rep>>, logs |-> <<>>,
              cp_calls |-> <<<<left_last_seq_no, splitter.initial_seq_no>>,
                             <<right_last_seq_no, splitter.initial_seq_no>>>>,
              exc |-> None]

\* the right half given the proof of the left half
_split_LeftProofTwice(splitter, message) ==
    LET ledgerNow == ledgerTxns[splitter.ledger]
        left == split_halves(message.txns)[1]
        left_last_seq_no == left[Len(left)][1]
        right == split_halves(message.txns)[2]
        right_last_seq_no == right[Len(right)][1]
        left_cons_proof == _make_consistency_proof(ledgerNow, left_last_seq_no,
                                                   splitter.initial_seq_no)
        right_cons_proof == _make_consistency_proof(ledgerNow, left_last_seq_no,
                                                    splitter.initial_seq_no)
        ledger_id == message.ledgerId
        left_rep == CatchupRep(ledger_id, SortedDict(DictOf(left)),
                               left_cons_proof.val)
        right_rep == CatchupRep(ledger_id, SortedDict(DictOf(right)),
                                right_cons_proof.val)
    IN  IF Len(message.txns) < 2
        THEN [ret |-> NoSplit, logs |-> <<"warning">>, cp_calls |-> <<>>,
              exc |-> None]
        ELSE IF left_cons_proof.exc = ValueError \/ right_cons_proof.exc = ValueError
        THEN [ret |-> NoSplit, logs |-> <<>>, cp_calls |-> <<>>,
              exc |-> ValueError]
        ELSE [ret |-> <<left_rep, right_rep>>, logs |-> <<>>,
              cp_calls |-> <<<<left_last_seq_no, splitter.initial_seq_no>>,
                             <<left_last_seq_no, splitter.initial_seq_no>>>>,
              exc |-> None]

\* _split(message) of the splitter made for (ledger, initial_seq_no)
_split(splitter, message) ==
    LET ledgerNow == ledgerTxns[splitter.ledger]
        left == split_halves(message.txns)[1]
        left_last_seq_no == left[Len(left)][1]
        right == split_halves(message.txns)[2]
        right_last_seq_no == right[Len(right)][1]
        left_cons_proof == _make_consistency_proof(ledgerNow, left_last_seq_no,
                                                   splitter.initial_seq_no)
        right_cons_proof == _make_consistency_proof(ledgerNow, right_last_seq_no,
                                                    splitter.initial_seq_no)
        ledger_id == message.ledgerId
        left_rep == CatchupRep(ledger_id, SortedDict(DictOf(left)),
                               left_cons_proof.val)
        right_rep == CatchupRep(ledger_id, SortedDict(DictOf(right)),
                                right_cons_proof.val)
    IN  IF Len(message.txns) < 2
        THEN [ret |-> NoSplit, logs |-> <<"warning">>, cp_calls |-> <<>>,
              exc |-> None]
        ELSE IF left_cons_proof.exc = ValueError \/ right_cons_proof.exc = ValueError
        THEN [ret |-> NoSplit, logs |-> <<>>, cp_calls |-> <<>>,
              exc |-> ValueError]
        ELSE [ret |-> <<left_rep, right_rep>>, logs |-> <<>>,
              cp_calls |-> <<<<left_last_seq_no, splitter.initial_seq_no>>,
                             <<right_last_seq_no, splitter.initial_seq_no>>>>,
              exc |-> None]

(* ------------------------------ actions -------------------------------- *)
(* ------------------- request_handlers/utils.py ------------------------- *)
\* Python values carry their type: ("dict", pairs), ("str", s), ("none", "")
PyDict(pairs) == <<"dict", pairs>>
PyStr(str) == <<"str", str>>
PyNone == <<"none", "">>
\* Python's == on such values
py_eq(a, b) == a[1] = b[1] /\ a[2] = b[2]
\* dict.get(key): the value under key, None without it
dict_get(d, key) ==
    IF \E p \in d[2] : p[1] = key
    THEN (CHOOSE p \in d[2] : p[1] = key)[2]
    ELSE PyNone

\* plenum.common.constants
ROLE == "role"
VERKEY == "verkey"
STEWARD == "2"
TRUSTEE == "0"

Nyms == {"nymA", "nymB"}

nym_to_state_key(nym) == <<"sha256", nym>>

StateKeys == {nym_to_state_key(nym) : nym \in Nyms}

\* what the trie holds under a key: nothing, or bytes
NoData == [kind |-> "none", body |-> {}]
EmptyBytes == [kind |-> "bytes", body |-> {}]
\* domain_state_serializer: the record written out as bytes, and read back
serialize(d) == [kind |-> "bytes", body |-> {<<"json", d[2]>>}]
deserialize(data) == PyDict((CHOOSE p \in data.body : p[1] = "json")[2])

\* the records a nym can have
NymRecords ==
    { PyDict({}),
      PyDict({<<VERKEY, PyStr("vk")>>}),
      PyDict({<<ROLE, PyStr(STEWARD)>>, <<VERKEY, PyStr("vk")>>}),
      PyDict({<<ROLE, PyStr(TRUSTEE)>>, <<VERKEY, PyStr("vk")>>}),
      PyDict({<<ROLE, PyNone>>, <<VERKEY, PyStr("vk")>>}) }

DataValues == {NoData, EmptyBytes} \cup {serialize(d) : d \in NymRecords}

\* state.get(key, is_committed): the committed head or the uncommitted one
state_get(state, key, is_committed) ==
    IF is_committed THEN state.committed[key] ELSE state.uncommitted[key]

\* is_committed left aside: the committed head whatever is asked
get_nym_details_Committed(state, nym, is_committed) ==
    LET key == nym_to_state_key(nym)
        data == state_get(state, key, TRUE)
    IN  IF data.kind = "none" \/ data.body = {}
        THEN PyDict({})
        ELSE deserialize(data)

get_nym_details(state, nym, is_committed) ==
    LET key == nym_to_state_key(nym)
        data == state_get(state, key, is_committed)
    IN  IF data.kind = "none" \/ data.body = {}
        THEN PyDict({})
        ELSE deserialize(data)

get_role(state, nym, is_committed) ==
    LET nymData == get_nym_details(state, nym, is_committed)
    IN  IF nymData[2] = {}
        THEN PyDict({})
        ELSE dict_get(nymData, ROLE)

is_steward(state, nym, is_committed) ==
    LET role == get_role(state, nym, is_committed)
    IN  py_eq(role, PyStr(STEWARD))

\* no process_ledger_status is under way
NotInFlight ==
    [pc |-> "idle", status |-> None, frm |-> None, entry_size |-> 0,
     seq_no_end |-> 0, old_root |-> None, proof |-> <<>>, out |-> <<>>]

NoWire == [req |-> None, to |-> None, splitter |-> None, reps |-> <<>>]

Init ==
    /\ ledgerTxns = [l \in LedgerObjs |-> <<>>]
    /\ _ledgers = [id \in LedgerIds |-> None]
    /\ _echo_ledger_status_if_up_to_date \in BOOLEAN
    /\ last = [op |-> "init"]
    /\ wire = NoWire
    /\ engine_refuses = FALSE
    /\ inflight = NotInFlight
    /\ processed = 0
    /\ sent = <<>>
    /\ domain_state = [committed |-> [key \in StateKeys |-> NoData],
                       uncommitted |-> [key \in StateKeys |-> NoData]]
    /\ answer = [op |-> "none"]

\* the mapping built anew around the ledger given
add_ledger_Reset(ledger_id, ledger) ==
    /\ _ledgers' = [id \in LedgerIds |-> IF id = ledger_id THEN ledger ELSE None]
    /\ last' = [op |-> "add_ledger", ledger_id |-> ledger_id, ledger |-> ledger]
    /\ UNCHANGED <<ledgerTxns, _echo_ledger_status_if_up_to_date, wire>>
    /\ UNCHANGED envVars

\* SeederService.add_ledger(ledger_id, ledger)
add_ledger(ledger_id, ledger) ==
    /\ _ledgers' = [_ledgers EXCEPT ![ledger_id] = ledger]
    /\ last' = [op |-> "add_ledger", ledger_id |-> ledger_id, ledger |-> ledger]
    /\ UNCHANGED <<ledgerTxns, _echo_ledger_status_if_up_to_date, wire>>
    /\ UNCHANGED envVars

\* the commit pipeline appends the next transaction to a ledger
AppendTxn(l) ==
    /\ Len(ledgerTxns[l]) < MaxSize
    /\ ledgerTxns' = [ledgerTxns EXCEPT
                        ![l] = Append(@, Txn(l, Len(ledgerTxns[l]) + 1))]
    /\ last' = [op |-> "append", ledger |-> l]
    /\ UNCHANGED <<_ledgers, _echo_ledger_status_if_up_to_date, wire>>
    /\ UNCHANGED envVars

\* the transport still holds pieces of the last send_to, or the handler
\* has not yet returned to the dispatcher
Busy ==
    \/ last.op \in {"process_ledger_status", "process_catchup_req", "split"}
    \/ wire.reps # <<>>

\* SeederService.process_ledger_status(status, frm)
process_ledger_status(status, frm) ==
    /\ ~Busy
    /\ last' = [op |-> "process_ledger_status", msg |-> status, frm |-> frm,
                res |-> handle_ledger_status(status, frm)]
    /\ wire' = NoWire
    /\ UNCHANGED <<ledgerTxns, _ledgers, _echo_ledger_status_if_up_to_date>>
    /\ UNCHANGED envVars

\* SeederService.process_catchup_req(req, frm)
process_catchup_req(req, frm) ==
    LET res == handle_catchup_req(req, frm)
    IN  /\ ~Busy
        /\ last' = [op |-> "process_catchup_req", msg |-> req, frm |-> frm,
                    res |-> res]
        /\ wire' = IF res.out = <<>> THEN NoWire
                   ELSE [req |-> req, to |-> frm,
                         splitter |-> res.out[1].splitter,
                         reps |-> <<res.out[1].msg>>]
        /\ UNCHANGED <<ledgerTxns, _ledgers, _echo_ledger_status_if_up_to_date>>
        /\ UNCHANGED envVars

\* the transport finds piece i too large for the wire and calls the splitter
\* send_to was given: two halves replace the piece, None abandons it
Split(i) ==
    LET message == wire.reps[i]
        r == _split(wire.splitter, message)
        before == SubSeq(wire.reps, 1, i - 1)
        after == SubSeq(wire.reps, i + 1, Len(wire.reps))
    IN  /\ last' = [op |-> "split", msg |-> message, req |-> wire.req,
                    splitter |-> wire.splitter, res |-> r]
        /\ wire' = IF r.ret # NoSplit
                   THEN [wire EXCEPT !.reps = before \o r.ret \o after]
                   ELSE IF before \o after = <<>> THEN NoWire
                   ELSE [wire EXCEPT !.reps = before \o after]
        /\ UNCHANGED <<ledgerTxns, _ledgers, _echo_ledger_status_if_up_to_date>>
        /\ UNCHANGED envVars

\* the handler has returned and the transport is done with what was sent:
\* the receive channel dispatches one message at a time
Dispatch ==
    /\ Busy
    /\ last' = [op |-> "idle"]
    /\ wire' = NoWire
    /\ UNCHANGED <<ledgerTxns, _ledgers, _echo_ledger_status_if_up_to_date>>
    /\ UNCHANGED envVars

Next ==
    \/ \E id \in LedgerIds, l \in LedgerObjs : add_ledger(id, l)
    \/ \E l \in LedgerObjs : AppendTxn(l)
    \/ \E id \in LedgerIds, n \in StatusSeqNos, frm \in Senders :
          process_ledger_status(LedgerStatus(id, n, PeerRoot), frm)
    \/ \E id \in LedgerIds, a \in ReqSeqNos, b \in ReqSeqNos, t \in ReqSeqNos,
          frm \in Senders :
          process_catchup_req(CatchupReq(id, a, b, t), frm)
    \/ \E i \in DOMAIN wire.reps : Split(i)
    \/ Dispatch

Spec == Init /\ [][Next]_vars

\* the engine falls into, or recovers from, a fault (an internal bug)
EngineFault ==
    /\ engine_refuses' = ~engine_refuses
    /\ last' = [op |-> "engine"]
    /\ UNCHANGED <<ledgerTxns, _ledgers, _echo_ledger_status_if_up_to_date, wire>>
    /\ UNCHANGED <<inflight, orderVars, nymVars>>

NextFault ==
    \/ Next
    \/ EngineFault

\* the seeder with an engine that may refuse
SpecFault == Init /\ [][NextFault]_vars

(* process_ledger_status with a writer appending to the ledger between its
   reads of the ledger: one step for each place where the handler reads
   ledger.size or the tree. *)

\* lines 30-48: the ledger looked up, the two validation rules, and the
\* comparison of line 44, which reads ledger.size for the first time
ls_enter(status, frm) ==
    LET ld == _get_ledger_and_id(status)
        txns == ledgerTxns[ld[2]]
    IN  /\ inflight.pc = "idle"
        /\ inflight' =
             IF ld[2] = None \/ status.txnSeqNo < 0
             THEN [NotInFlight EXCEPT !.pc = "done", !.status = status, !.frm = frm]
             ELSE IF status.txnSeqNo >= size(txns)
             THEN [NotInFlight EXCEPT
                     !.pc = "done", !.status = status, !.frm = frm,
                     !.entry_size = size(txns),
                     !.out = IF _echo_ledger_status_if_up_to_date
                             THEN <<send_to(build_ledger_status(ld[1], txns), frm, None)>>
                             ELSE <<>>]
             ELSE [NotInFlight EXCEPT
                     !.pc = "l51", !.status = status, !.frm = frm,
                     !.entry_size = size(txns)]
        /\ UNCHANGED <<ledgerTxns, _ledgers, _echo_ledger_status_if_up_to_date,
                       last, wire, engine_refuses, orderVars, nymVars>>

\* line 51: the argument ledger.size is read again and becomes seq_no_end
ls_read_size ==
    /\ inflight.pc = "l51"
    /\ inflight' = [inflight EXCEPT
                      !.pc = "l113",
                      !.seq_no_end = size(ledgerTxns[_ledgers[inflight.status.ledgerId]])]
    /\ UNCHANGED <<ledgerTxns, _ledgers, _echo_ledger_status_if_up_to_date,
                   last, wire, engine_refuses, orderVars, nymVars>>

\* lines 111-120: the three checks, against ledger.size as it is now; the
\* ValueError is caught at line 55 and nothing is sent
ls_check ==
    LET txns == ledgerTxns[_ledgers[inflight.status.ledgerId]]
        seq_no_start == inflight.status.txnSeqNo
        seq_no_end == inflight.seq_no_end
    IN  /\ inflight.pc = "l113"
        /\ inflight' = [inflight EXCEPT
                          !.pc = IF \/ seq_no_end < seq_no_start
                                    \/ seq_no_start > size(txns)
                                    \/ seq_no_end > size(txns)
                                 THEN "done" ELSE "l122"]
        /\ UNCHANGED <<ledgerTxns, _ledgers, _echo_ledger_status_if_up_to_date,
                       last, wire, engine_refuses, orderVars, nymVars>>

\* lines 122-132: old_root and proof, from the tree as it is now
ls_old_root ==
    LET txns == ledgerTxns[_ledgers[inflight.status.ledgerId]]
        op == old_root_and_proof(txns, inflight.status.txnSeqNo, inflight.seq_no_end)
    IN  /\ inflight.pc = "l122"
        /\ inflight' = IF op.proof.exc = ValueError
                        THEN [inflight EXCEPT !.pc = "done"]
                        ELSE [inflight EXCEPT !.pc = "l134",
                                              !.old_root = op.old_root,
                                              !.proof = op.proof.val]
        /\ UNCHANGED <<ledgerTxns, _ledgers, _echo_ledger_status_if_up_to_date,
                       last, wire, engine_refuses, orderVars, nymVars>>

\* lines 134-148 and 53-54: new_root, the three-phase key, the message, send_to
ls_send ==
    LET ledger_id == inflight.status.ledgerId
        txns == ledgerTxns[_ledgers[ledger_id]]
        new_root == hashToStr(merkle_tree_hash(txns, 0, inflight.seq_no_end))
        three_pc_key == three_phase_key_for_txn_seq_no(ledger_id, inflight.seq_no_end)
        view_no == IF three_pc_key # NoKey THEN three_pc_key[1] ELSE 0
        pp_seq_no == IF three_pc_key # NoKey THEN three_pc_key[2] ELSE 0
        cons_proof == ConsistencyProof(ledger_id, inflight.status.txnSeqNo, inflight.seq_no_end, view_no, pp_seq_no, inflight.old_root, new_root, inflight.proof)
    IN  /\ inflight.pc = "l134"
        /\ inflight' = [inflight EXCEPT
                          !.pc = "done",
                          !.out = <<send_to(cons_proof, inflight.frm, None)>>]
        /\ UNCHANGED <<ledgerTxns, _ledgers, _echo_ledger_status_if_up_to_date,
                       last, wire, engine_refuses, orderVars, nymVars>>

\* the handler returns and the dispatcher is free for the next message
ls_return ==
    /\ inflight.pc = "done"
    /\ inflight' = NotInFlight
    /\ last' = [op |-> "idle"]
    /\ UNCHANGED <<ledgerTxns, _ledgers, _echo_ledger_status_if_up_to_date,
                   wire, engine_refuses, orderVars, nymVars>>

NextConc ==
    \/ \E ledger_id \in LedgerIds, ledger \in LedgerObjs :
          inflight.pc = "idle" /\ add_ledger(ledger_id, ledger)
    \/ \E l \in LedgerObjs : AppendTxn(l)
    \/ \E ledger_id \in LedgerIds, n \in StatusSeqNos, frm \in Senders :
          ls_enter(LedgerStatus(ledger_id, n, PeerRoot), frm)
    \/ ls_read_size
    \/ ls_check
    \/ ls_old_root
    \/ ls_send
    \/ ls_return

\* the seeder answering LedgerStatus while the commit pipeline writes
SpecConc == Init /\ [][NextConc]_vars

(* The dispatcher delivering inbound messages one at a time, each handler
   running to its end, and the order in which send_to is called. *)

\* the handler's calls of send_to, put ahead of what was sent before
handed_to_send_to_Ahead(log, request, out) ==
    [i \in 1..Len(out) |-> request] \o log

\* the handler's calls of send_to (lines 47, 54, 98), in the order made
handed_to_send_to(log, request, out) ==
    log \o [i \in 1..Len(out) |-> request]

deliver_ledger_status(status, frm) ==
    /\ processed < MaxRequests
    /\ processed' = processed + 1
    /\ sent' = handed_to_send_to(sent, processed + 1,
                                 handle_ledger_status(status, frm).out)
    /\ UNCHANGED <<ledgerTxns, _ledgers, _echo_ledger_status_if_up_to_date,
                   last, wire, engine_refuses, inflight, nymVars>>

deliver_catchup_req(req, frm) ==
    /\ processed < MaxRequests
    /\ processed' = processed + 1
    /\ sent' = handed_to_send_to(sent, processed + 1,
                                 handle_catchup_req(req, frm).out)
    /\ UNCHANGED <<ledgerTxns, _ledgers, _echo_ledger_status_if_up_to_date,
                   last, wire, engine_refuses, inflight, nymVars>>

NextOrder ==
    \/ \E ledger_id \in LedgerIds, ledger \in LedgerObjs : add_ledger(ledger_id, ledger)
    \/ \E l \in LedgerObjs : AppendTxn(l)
    \/ \E ledger_id \in LedgerIds, n \in StatusSeqNos, frm \in Senders :
          deliver_ledger_status(LedgerStatus(ledger_id, n, PeerRoot), frm)
    \/ \E ledger_id \in LedgerIds, a, b, t \in ReqSeqNos, frm \in Senders :
          deliver_catchup_req(CatchupReq(ledger_id, a, b, t), frm)

\* the seeder behind its dispatcher, with the requests numbered as processed
SpecOrder == Init /\ [][NextOrder]_vars

(* The role lookups of request_handlers/utils.py over a state that changes. *)

\* a write to the uncommitted head
state_set(nym, data) ==
    /\ domain_state' = [domain_state EXCEPT
                          !.uncommitted[nym_to_state_key(nym)] = data]
    /\ answer' = [op |-> "set"]
    /\ UNCHANGED <<ledgerTxns, _ledgers, _echo_ledger_status_if_up_to_date,
                   last, wire, engine_refuses, inflight, orderVars>>

\* the uncommitted head becomes the committed one
state_commit ==
    /\ domain_state.committed # domain_state.uncommitted
    /\ domain_state' = [domain_state EXCEPT !.committed = domain_state.uncommitted]
    /\ answer' = [op |-> "commit"]
    /\ UNCHANGED <<ledgerTxns, _ledgers, _echo_ledger_status_if_up_to_date,
                   last, wire, engine_refuses, inflight, orderVars>>

call_is_steward(nym, is_committed) ==
    /\ answer' = [op |-> "is_steward", nym |-> nym, is_committed |-> is_committed,
                  ret |-> is_steward(domain_state, nym, is_committed)]
    /\ UNCHANGED <<ledgerTxns, _ledgers, _echo_ledger_status_if_up_to_date,
                   last, wire, engine_refuses, inflight, orderVars, domain_state>>

call_get_role(nym, is_committed) ==
    /\ answer' = [op |-> "get_role", nym |-> nym, is_committed |-> is_committed,
                  ret |-> get_role(domain_state, nym, is_committed)]
    /\ UNCHANGED <<ledgerTxns, _ledgers, _echo_ledger_status_if_up_to_date,
                   last, wire, engine_refuses, inflight, orderVars, domain_state>>

call_get_nym_details(nym, is_committed) ==
    /\ answer' = [op |-> "get_nym_details", nym |-> nym, is_committed |-> is_committed,
                  ret |-> get_nym_details(domain_state, nym, is_committed)]
    /\ UNCHANGED <<ledgerTxns, _ledgers, _echo_ledger_status_if_up_to_date,
                   last, wire, engine_refuses, inflight, orderVars, domain_state>>

NextNym ==
    \/ \E nym \in Nyms, data \in DataValues : state_set(nym, data)
    \/ state_commit
    \/ \E nym \in Nyms, is_committed \in BOOLEAN : call_is_steward(nym, is_committed)
    \/ \E nym \in Nyms, is_committed \in BOOLEAN : call_get_role(nym, is_committed)
    \/ \E nym \in Nyms, is_committed \in BOOLEAN : call_get_nym_details(nym, is_committed)

SpecNym == Init /\ [][NextNym]_vars

(* ------------------------------ properties ----------------------------- *)
\* the ledger a message names, as the seeder has it registered
LedgerOfMsg(msg) == _ledgers[msg.ledgerId]
TxnsOfMsg(msg) == ledgerTxns[LedgerOfMsg(msg)]

\* a LedgerStatus that fails a rule of the request validator
StatusInvalid(status) ==
    \/ LedgerOfMsg(status) = None
    \/ status.txnSeqNo < 0

\* a CatchupReq that fails a rule of the request validator
ReqInvalid(req) ==
    \/ LedgerOfMsg(req) = None
    \/ req.seqNoStart > req.seqNoEnd
    \/ req.seqNoEnd > req.catchupTill
    \/ req.catchupTill > Len(TxnsOfMsg(req))

AfterStatus == last.op = "process_ledger_status"
AfterReq == last.op = "process_catchup_req"
AfterSplit == last.op = "split"

\* C1: a LedgerStatus or CatchupReq that fails a validation rule
\* (unregistered ledger, negative txnSeqNo, start > end, end > catchupTill,
\* catchupTill > ledger size) makes the handler call send_to not at all, in
\* both variants and whatever the ledgers hold.
C1_NoSendOnValidationFailure ==
    /\ (AfterStatus /\ StatusInvalid(last.msg)) => last.res.out = <<>>
    /\ (AfterReq /\ ReqInvalid(last.msg)) =>
          (last.res.out = <<>> /\ wire.reps = <<>>)

\* a request with start > end for a registered, long enough ledger was handled
C1_Witness ==
    /\ AfterReq
    /\ LedgerOfMsg(last.msg) # None
    /\ last.msg.seqNoStart > last.msg.seqNoEnd
    /\ last.msg.seqNoEnd <= last.msg.catchupTill
    /\ last.msg.catchupTill <= Len(TxnsOfMsg(last.msg))
    /\ last.msg.seqNoEnd >= 1
    /\ last.res.out = <<>>

\* C2: a LedgerStatus for a registered ledger with 0 <= txnSeqNo < ledger
\* size makes process_ledger_status emit exactly one message, to the sender:
\* a ConsistencyProof of the same ledgerId with seqNoStart = txnSeqNo and
\* seqNoEnd = ledger size, in the client-facing and the peer-facing variant.
C2_OneConsistencyProofWhenBehind ==
    (/\ AfterStatus
     /\ ~StatusInvalid(last.msg)
     /\ last.msg.txnSeqNo < Len(TxnsOfMsg(last.msg)))
    => /\ Len(last.res.out) = 1
       /\ last.res.out[1].to = last.frm
       /\ last.res.out[1].msg.type = "ConsistencyProof"
       /\ last.res.out[1].msg.ledgerId = last.msg.ledgerId
       /\ last.res.out[1].msg.seqNoStart = last.msg.txnSeqNo
       /\ last.res.out[1].msg.seqNoEnd = Len(TxnsOfMsg(last.msg))

\* the peer-facing seeder answered a status that is behind, but not empty
C2_Witness ==
    /\ AfterStatus
    /\ ~StatusInvalid(last.msg)
    /\ ~_echo_ledger_status_if_up_to_date
    /\ last.msg.txnSeqNo > 0
    /\ last.msg.txnSeqNo < Len(TxnsOfMsg(last.msg))
    /\ Len(last.res.out) = 1
    /\ last.res.out[1].msg.type = "ConsistencyProof"

\* C3: a valid LedgerStatus with txnSeqNo >= ledger size (the equal case
\* included) makes the client-facing seeder emit exactly one message to the
\* sender, its own current LedgerStatus of that ledger and no
\* ConsistencyProof, and makes the peer-facing seeder emit nothing.
C3_UpToDateStatus ==
    (/\ AfterStatus
     /\ ~StatusInvalid(last.msg)
     /\ last.msg.txnSeqNo >= Len(TxnsOfMsg(last.msg)))
    => IF _echo_ledger_status_if_up_to_date
       THEN /\ Len(last.res.out) = 1
            /\ last.res.out[1].to = last.frm
            /\ last.res.out[1].msg.type = "LedgerStatus"
            /\ last.res.out[1].msg.ledgerId = last.msg.ledgerId
            /\ last.res.out[1].msg.txnSeqNo = Len(TxnsOfMsg(last.msg))
            /\ last.res.out[1].msg.merkleRoot =
                  hashToStr(merkle_tree_hash(TxnsOfMsg(last.msg), 0,
                                             Len(TxnsOfMsg(last.msg))))
       ELSE last.res.out = <<>>

\* the client-facing seeder answered a status exactly as long as its
\* non-empty ledger
C3_Witness ==
    /\ AfterStatus
    /\ ~StatusInvalid(last.msg)
    /\ _echo_ledger_status_if_up_to_date
    /\ last.msg.txnSeqNo = Len(TxnsOfMsg(last.msg))
    /\ last.msg.txnSeqNo > 0
    /\ Len(last.res.out) = 1
    /\ last.res.out[1].msg.type = "LedgerStatus"

\* the keys of an ordered transaction map, in its order
KeysOf(txns) == [i \in DOMAIN txns |-> txns[i][1]]
StrictlyIncreasing(s) == \A i, j \in DOMAIN s : i < j => s[i] < s[j]
\* the engine's proof as it goes on the wire
WireProof(txns, m, n) == hashesToStr(consistency_proof(txns, m, n).val)
\* the root of the first n transactions as it goes on the wire
WireRoot(txns, n) == hashToStr(merkle_tree_hash(txns, 0, n))

\* C4: a CatchupReq(ledgerId, a, b, T) that passes validation (registered
\* ledger, a <= b <= T <= ledger size), a = 0 and a = b included, is answered
\* by a CatchupRep whose txns has exactly b - a + 1 entries, the key set
\* {a, ..., b}, and keys in strictly increasing order.
C4_RepliesWholeRange ==
    (AfterReq /\ ~ReqInvalid(last.msg))
    => /\ Len(last.res.out) = 1
       /\ Len(last.res.out[1].msg.txns) =
             last.msg.seqNoEnd - last.msg.seqNoStart + 1
       /\ {last.res.out[1].msg.txns[i][1] : i \in DOMAIN last.res.out[1].msg.txns}
             = last.msg.seqNoStart..last.msg.seqNoEnd
       /\ StrictlyIncreasing(KeysOf(last.res.out[1].msg.txns))

\* C5: a CatchupReq that passes validation makes process_catchup_req emit
\* exactly one CatchupRep to the sender, with the request's ledgerId and with
\* consProof = consistency_proof(seqNoEnd, catchupTill) (empty when the two
\* are equal), and hand send_to a splitter bound to the same ledger and to
\* the request's catchupTill.
C5_OneCatchupRepWithProofAndSplitter ==
    (AfterReq /\ ~ReqInvalid(last.msg))
    => /\ Len(last.res.out) = 1
       /\ last.res.out[1].to = last.frm
       /\ last.res.out[1].msg.type = "CatchupRep"
       /\ last.res.out[1].msg.ledgerId = last.msg.ledgerId
       /\ last.res.out[1].msg.consProof =
             WireProof(TxnsOfMsg(last.msg), last.msg.seqNoEnd,
                       last.msg.catchupTill)
       /\ (last.msg.seqNoEnd = last.msg.catchupTill
             => last.res.out[1].msg.consProof = <<>>)
       /\ last.res.out[1].splitter.ledger = LedgerOfMsg(last.msg)
       /\ last.res.out[1].splitter.initial_seq_no = last.msg.catchupTill

\* a request for a range that starts above 1 and ends below its catchupTill
\* was answered
C5_Witness ==
    /\ AfterReq
    /\ ~ReqInvalid(last.msg)
    /\ last.msg.seqNoStart > 1
    /\ last.msg.seqNoEnd < last.msg.catchupTill
    /\ Len(last.res.out) = 1
    /\ last.res.out[1].msg.consProof # <<>>

\* C6: a ConsistencyProof built with seqNoStart = 0 (a LedgerStatus with
\* txnSeqNo = 0 against a non-empty ledger) has oldMerkleRoot = newMerkleRoot
\* = root(ledger size) and hashes = [oldMerkleRoot], and the engine's
\* consistency_proof is not called for it.
C6_ProofFromZero ==
    (/\ AfterStatus
     /\ ~StatusInvalid(last.msg)
     /\ last.msg.txnSeqNo = 0
     /\ Len(TxnsOfMsg(last.msg)) > 0)
    => /\ Len(last.res.out) = 1
       /\ last.res.out[1].msg.type = "ConsistencyProof"
       /\ last.res.out[1].msg.seqNoStart = 0
       /\ last.res.out[1].msg.oldMerkleRoot =
             WireRoot(TxnsOfMsg(last.msg), Len(TxnsOfMsg(last.msg)))
       /\ last.res.out[1].msg.newMerkleRoot =
             WireRoot(TxnsOfMsg(last.msg), Len(TxnsOfMsg(last.msg)))
       /\ last.res.out[1].msg.hashes = <<last.res.out[1].msg.oldMerkleRoot>>
       /\ last.res.cp_calls = <<>>

\* a status with txnSeqNo = 0 was answered from a ledger of two or more
\* transactions
C6_Witness ==
    /\ AfterStatus
    /\ ~StatusInvalid(last.msg)
    /\ last.msg.txnSeqNo = 0
    /\ Len(TxnsOfMsg(last.msg)) >= 2
    /\ Len(last.res.out) = 1
    /\ Len(last.res.out[1].msg.hashes) = 1

\* C7: a ConsistencyProof built with 0 < seqNoStart <= seqNoEnd <= ledger
\* size has oldMerkleRoot = root_hash_of_prefix(seqNoStart), newMerkleRoot =
\* root_hash_of_prefix(seqNoEnd) and hashes = consistency_proof(seqNoStart,
\* seqNoEnd) in the engine's order.
C7_ProofFromPrefix ==
    (/\ AfterStatus
     /\ last.res.out # <<>>
     /\ last.res.out[1].msg.type = "ConsistencyProof"
     /\ last.res.out[1].msg.seqNoStart > 0)
    => /\ last.res.out[1].msg.seqNoStart <= last.res.out[1].msg.seqNoEnd
       /\ last.res.out[1].msg.seqNoEnd <= Len(TxnsOfMsg(last.msg))
       /\ last.res.out[1].msg.oldMerkleRoot =
             WireRoot(TxnsOfMsg(last.msg), last.res.out[1].msg.seqNoStart)
       /\ last.res.out[1].msg.newMerkleRoot =
             WireRoot(TxnsOfMsg(last.msg), last.res.out[1].msg.seqNoEnd)
       /\ last.res.out[1].msg.hashes =
             WireProof(TxnsOfMsg(last.msg), last.res.out[1].msg.seqNoStart,
                       last.res.out[1].msg.seqNoEnd)
       /\ last.res.cp_calls = <<<<last.res.out[1].msg.seqNoStart,
                                  last.res.out[1].msg.seqNoEnd>>>>

\* a status two transactions in was answered from a ledger of three
C7_Witness ==
    /\ AfterStatus
    /\ last.res.out # <<>>
    /\ last.res.out[1].msg.type = "ConsistencyProof"
    /\ last.res.out[1].msg.seqNoStart = 2
    /\ last.res.out[1].msg.seqNoEnd = 3
    /\ Len(last.res.out[1].msg.hashes) >= 1

\* C8: the splitter returns None, and no CatchupRep, for every CatchupRep of
\* fewer than 2 transactions (0 or 1), and a pair of CatchupReps for every
\* CatchupRep of 2 or more.
C8_SplitNoneBelowTwo ==
    AfterSplit
    => IF Len(last.msg.txns) < 2
       THEN last.res.ret = NoSplit
       ELSE /\ Len(last.res.ret) = 2
            /\ last.res.ret[1].type = "CatchupRep"
            /\ last.res.ret[2].type = "CatchupRep"

\* the splitter was called on a CatchupRep of one transaction
C8_Witness ==
    /\ AfterSplit
    /\ Len(last.msg.txns) = 1
    /\ last.res.ret = NoSplit

\* C9: for a CatchupRep of n >= 2 transactions in ascending order the left
\* half holds the first floor(n/2) transactions and the right half the rest:
\* left.txns followed by right.txns is the original txns, and every SeqNo of
\* the left half is smaller than every SeqNo of the right half.
C9_SplitPartitionsInOrder ==
    (AfterSplit /\ Len(last.msg.txns) >= 2)
    => /\ Len(last.res.ret) = 2
       /\ Len(last.res.ret[1].txns) = Len(last.msg.txns) \div 2
       /\ last.res.ret[1].txns \o last.res.ret[2].txns = last.msg.txns
       /\ \A i \in DOMAIN last.res.ret[1].txns :
             \A j \in DOMAIN last.res.ret[2].txns :
                last.res.ret[1].txns[i][1] < last.res.ret[2].txns[j][1]

\* the splitter was called on a CatchupRep of three transactions
C9_Witness ==
    /\ AfterSplit
    /\ Len(last.msg.txns) = 3
    /\ StrictlyIncreasing(KeysOf(last.msg.txns))
    /\ Len(last.res.ret) = 2
    /\ Len(last.res.ret[2].txns) = 2

\* consProof and ledgerId of a half, given the request the split is made for
HalfIsFresh(half) ==
    /\ half.ledgerId = last.req.ledgerId
    /\ half.ledgerId = last.msg.ledgerId
    /\ half.consProof =
          WireProof(ledgerTxns[last.splitter.ledger],
                    half.txns[Len(half.txns)][1], last.req.catchupTill)

\* C10: each half of a split of a CatchupRep made for a request with
\* catchupTill = T keeps the ledgerId and carries consProof =
\* consistency_proof(lastSeqNo, T), lastSeqNo the largest SeqNo of the half
\* and T the catchupTill of the original request; also when a half is split
\* again.
C10_HalvesCarryFreshProof ==
    (AfterSplit /\ last.res.ret # NoSplit)
    => /\ HalfIsFresh(last.res.ret[1])
       /\ HalfIsFresh(last.res.ret[2])

\* a half of an earlier split was split again, below the request's catchupTill
C10_Witness ==
    /\ AfterSplit
    /\ last.res.ret # NoSplit
    /\ Len(last.msg.txns) < last.req.seqNoEnd - last.req.seqNoStart + 1
    /\ last.req.seqNoStart >= 1
    /\ last.res.ret[1].consProof # <<>>

\* the levels a handler logged at
Levels(res) == {res.logs[i] : i \in DOMAIN res.logs}

\* C11: every validation failure of a LedgerStatus or of a CatchupReq (every
\* rule of the request validator, start > end, end > catchupTill and
\* catchupTill > ledger size included) is logged at warning level before the
\* message is dropped.
C11_WarningOnEveryValidationFailure ==
    /\ (AfterStatus /\ StatusInvalid(last.msg)) => "warning" \in Levels(last.res)
    /\ (AfterReq /\ ReqInvalid(last.msg)) => "warning" \in Levels(last.res)

\* C13: no operation of the seeder on a message (process_ledger_status,
\* process_catchup_req, the splitter) changes a ledger, the registered-ledger
\* mapping or the variant flag, whether the message is accepted or dropped;
\* only add_ledger changes the mapping, and only at the ledger id it is given.
C13_MessagesChangeNothing ==
    [][/\ (last'.op \in {"process_ledger_status", "process_catchup_req", "split"})
            => UNCHANGED <<ledgerTxns, _ledgers, _echo_ledger_status_if_up_to_date>>
       /\ (_ledgers' # _ledgers)
            => /\ last'.op = "add_ledger"
               /\ \A id \in LedgerIds :
                     id # last'.ledger_id => _ledgers'[id] = _ledgers[id]
       /\ _echo_ledger_status_if_up_to_date' = _echo_ledger_status_if_up_to_date
      ]_vars

\* add_ledger has registered a ledger while the other id stays registered
C13_Witness ==
    /\ last.op = "add_ledger"
    /\ \E id \in LedgerIds : id # last.ledger_id /\ _ledgers[id] # None
    /\ \E l \in LedgerObjs : ledgerTxns[l] # <<>>

\* C16: every emitted ConsistencyProof carries (viewNo, ppSeqNo) = the
\* provider's three-phase key of (ledgerId, seqNoEnd) when it knows one and
\* (0, 0) when it knows none; the key is asked for seqNoEnd, not seqNoStart.
C16_ThreePhaseKeyOfSeqNoEnd ==
    (/\ AfterStatus
     /\ last.res.out # <<>>
     /\ last.res.out[1].msg.type = "ConsistencyProof")
    => IF three_phase_key_for_txn_seq_no(last.res.out[1].msg.ledgerId,
                                         last.res.out[1].msg.seqNoEnd) # NoKey
       THEN <<last.res.out[1].msg.viewNo, last.res.out[1].msg.ppSeqNo>> =
               three_phase_key_for_txn_seq_no(last.res.out[1].msg.ledgerId,
                                              last.res.out[1].msg.seqNoEnd)
       ELSE <<last.res.out[1].msg.viewNo, last.res.out[1].msg.ppSeqNo>> = <<0, 0>>

\* a ConsistencyProof went out whose end has a key and whose start has none
C16_Witness ==
    /\ AfterStatus
    /\ last.res.out # <<>>
    /\ last.res.out[1].msg.type = "ConsistencyProof"
    /\ last.res.out[1].msg.seqNoStart = 1
    /\ last.res.out[1].msg.seqNoEnd >= 2
    /\ last.res.out[1].msg.ppSeqNo = last.res.out[1].msg.seqNoEnd

RECURSIVE SplitsLeft(_)
\* an upper bound of the splitter calls the pieces can still cause: a piece
\* of n >= 2 transactions 2n - 1, a smaller piece 1
SplitsLeft(reps) ==
    IF reps = <<>> THEN 0
    ELSE (IF Len(reps[1].txns) >= 2 THEN 2 * Len(reps[1].txns) - 1 ELSE 1)
         + SplitsLeft(Tail(reps))

\* C19: for a CatchupRep of n >= 2 transactions both halves of the splitter
\* are non-empty and smaller than n (left floor(n/2), right ceil(n/2)); so a
\* transport that re-splits every piece it finds too large stops after
\* finitely many splitter calls: each call lowers the number of calls the
\* pieces can still cause.
C19_SplitTerminates ==
    /\ [](AfterSplit /\ Len(last.msg.txns) >= 2
            => /\ Len(last.res.ret) = 2
               /\ Len(last.res.ret[1].txns) = Len(last.msg.txns) \div 2
               /\ Len(last.res.ret[2].txns) = (Len(last.msg.txns) + 1) \div 2
               /\ Len(last.res.ret[1].txns) >= 1
               /\ Len(last.res.ret[2].txns) >= 1
               /\ Len(last.res.ret[1].txns) < Len(last.msg.txns)
               /\ Len(last.res.ret[2].txns) < Len(last.msg.txns))
    /\ [][last'.op = "split" =>
             /\ SplitsLeft(wire'.reps) < SplitsLeft(wire.reps)
             /\ SplitsLeft(wire'.reps) >= 0]_vars

\* the transport has split down to pieces of one transaction and the
\* splitter has refused the last of them
C19_Witness ==
    /\ AfterSplit
    /\ last.res.ret = NoSplit
    /\ Len(last.msg.txns) = 1
    /\ last.req.seqNoEnd - last.req.seqNoStart = 2
    /\ last.req.seqNoStart >= 1
    /\ wire.reps = <<>>


\* C12: whenever the Merkle engine refuses a computation while a request is
\* handled, in process_ledger_status as in process_catchup_req, the handler
\* emits no message and returns normally: no exception leaves the handler.
C12_EngineFaultIsDropped ==
    (/\ AfterStatus \/ AfterReq
     /\ engine_refuses
     /\ last.res.cp_calls # <<>>)
    => /\ last.res.out = <<>>
       /\ last.res.exc = None


\* C14: when a writer appends while process_ledger_status is under way, the
\* ConsistencyProof it sends is derived from the ledger size seen at entry
\* alone: seqNoEnd is that size, newMerkleRoot is the root of that size, and
\* with seqNoStart = 0 oldMerkleRoot = newMerkleRoot = root(seqNoEnd).
C14_ValuesFromSizeAtEntry ==
    (/\ inflight.pc = "done"
     /\ inflight.out # <<>>
     /\ inflight.out[1].msg.type = "ConsistencyProof")
    => LET m == inflight.out[1].msg
           txns == ledgerTxns[_ledgers[m.ledgerId]]
       IN  /\ m.seqNoEnd = inflight.entry_size
           /\ m.newMerkleRoot = hashToStr(merkle_tree_hash(txns, 0, m.seqNoEnd))
           /\ m.seqNoStart = 0 => m.oldMerkleRoot = m.newMerkleRoot


\* C15: with the inbound messages delivered one at a time, the responses
\* handed to send_to are in the order in which their requests were processed,
\* and each response is handed over in the step of its own handler, before
\* the next message is dispatched.
C15_ResponsesInRequestOrder ==
    /\ [](StrictlyIncreasing(sent))
    /\ [][/\ Len(sent') >= Len(sent)
          /\ \A i \in 1..Len(sent) : sent'[i] = sent[i]
          /\ \A i \in (Len(sent) + 1)..Len(sent') : sent'[i] = processed']_vars

\* three requests processed, the first and the last answered, the second not
C15_Witness ==
    /\ processed = 3
    /\ sent = <<1, 3>>

\* the data of nym at the head chosen is a record, not empty, whose ROLE is STEWARD
HoldsStewardRecord(nym, is_committed) ==
    LET data == IF is_committed
                THEN domain_state.committed[nym_to_state_key(nym)]
                ELSE domain_state.uncommitted[nym_to_state_key(nym)]
    IN  \E d \in NymRecords :
          /\ data = serialize(d)
          /\ d[2] # {}
          /\ <<ROLE, PyStr(STEWARD)>> \in d[2]

\* nym has no record at the head chosen, or an empty one
NoOrEmptyRecord(nym, is_committed) ==
    LET data == IF is_committed
                THEN domain_state.committed[nym_to_state_key(nym)]
                ELSE domain_state.uncommitted[nym_to_state_key(nym)]
    IN  data \in {NoData, EmptyBytes, serialize(PyDict({}))}

\* C20: is_steward is true exactly when the state, at the head selected by
\* is_committed, holds under the key of nym a non-empty record whose ROLE is
\* STEWARD; with no record or an empty one it is false and get_role and
\* get_nym_details return the empty mapping; none of the three changes the state.
C20_IsStewardReadsTheRole ==
    /\ [](answer.op = "is_steward"
            => /\ answer.ret <=> HoldsStewardRecord(answer.nym, answer.is_committed)
               /\ NoOrEmptyRecord(answer.nym, answer.is_committed) => ~answer.ret)
    /\ []((/\ answer.op \in {"get_role", "get_nym_details"}
           /\ NoOrEmptyRecord(answer.nym, answer.is_committed))
            => py_eq(answer.ret, PyDict({})))
    /\ [][answer'.op \in {"is_steward", "get_role", "get_nym_details"}
            => domain_state' = domain_state]_vars

\* a steward in the uncommitted head and not yet in the committed one, asked
\* about at the uncommitted head
C20_Witness ==
    /\ answer.op = "is_steward"
    /\ answer.ret
    /\ ~answer.is_committed
    /\ ~HoldsStewardRecord(answer.nym, TRUE)

====
